---- MODULE Spec2Model ----
(***************************************************************************)
(* A model of the three mappy-based read classification scripts of NSA/:   *)
(*   Target_seq_extraction.py     (script = "repeat": repeat-size table)   *)
(*   Extract_tgt_flanks_mappy.py  (script = "flanks": flank extraction)    *)
(*   Extract_tgt_only_mappy.py    (script = "only":   target-only filter)  *)
(* Text is modelled as sequences of one-character strings, a file as the   *)
(* sequence of its lines, the aligner (mappy) as a nondeterministic source *)
(* of candidate hits, or as a function of (reference, sequence) where a    *)
(* script is run twice.                                                    *)
(***************************************************************************)
EXTENDS Integers, Sequences, FiniteSets, TLC

VARIABLES
    script,         \* which of the three scripts runs
    fastqname,      \* args.fastqname
    idx_ok,         \* reference -> whether mp.Aligner builds its index
    min_mapq,       \* args.min_mapq
    min_span,       \* args.min_span        (flanks)
    min_flank_len,  \* args.min_flank_len   (flanks)
    disk,           \* path -> content of the file, a sequence of lines
    pc,             \* position of the script
    fh_pos,         \* lines consumed so far by parse_fastq's handle
    rid,            \* loop variable rid
    seq,            \* loop variable seq
    up,             \* up   (repeat)
    down,           \* down (repeat)
    tgt,            \* tgt  (repeat)
    hit,            \* hit  (flanks)
    has,            \* value of has_hit(...) in the if of the filter script
    cand,           \* what the most recent aligner.map(seq) returned
    queried,        \* references queried for the current read, in order
    count_in,       \* count_in / n_in
    count_pass,     \* count_pass (repeat), n_out (only)
    n_hit,          \* n_hit (flanks)
    n_out,          \* n_out (flanks)
    out_mode,       \* mode of the open output handle, or "none" / "closed"
    stderr,         \* diagnostics written, in order
    exit_code,      \* exit status, -1 while running
    yielded,        \* history: the records parse_fastq yielded, in order
    accepted,       \* history: ordinal numbers of the reads accepted
    wlog,           \* history: for each output entry, the read it was written for
    aligner,        \* (reference, sequence) -> candidates, where mappy is held to a function
    run,            \* which run of the script this is: 1 or 2
    first_out,      \* content of the output file when the first run ended
    est             \* repeatsize computed for each order of the endpoints of up and down

vars == <<script, fastqname, idx_ok, min_mapq, min_span, min_flank_len, disk,
          pc, fh_pos, rid, seq, up, down, tgt, hit, has, cand, queried,
          count_in, count_pass, n_hit, n_out, out_mode, stderr, exit_code,
          yielded, accepted, wlog, aligner, run, first_out, est>>

(***************************************************************************)
(* Bounds of the model.                                                    *)
(***************************************************************************)
\* longest FASTQ file, in lines, of the parser specification
MaxLines == 11
\* most candidates one aligner.map call returns
MaxHits == 2

(***************************************************************************)
(* Text.                                                                   *)
(***************************************************************************)
\* Python's None, and the empty str
None == <<>>
EmptyStr == <<>>

\* the characters str.strip() and str.split() treat as whitespace
Whitespace == {" ", "\t", "\n", "\r", "\f"}

Min2(a, b) == IF a <= b THEN a ELSE b

Abs(x) == IF x < 0 THEN -x ELSE x

\* s[a:b] for 0 <= a
Slice(s, a, b) == SubSeq(s, a + 1, Min2(b, Len(s)))

RECURSIVE lstrip(_)
lstrip(s) ==
    IF s # <<>> /\ Head(s) \in Whitespace THEN lstrip(Tail(s)) ELSE s

RECURSIVE rstrip(_)
rstrip(s) ==
    IF s # <<>> /\ s[Len(s)] \in Whitespace
    THEN rstrip(SubSeq(s, 1, Len(s) - 1)) ELSE s

\* str.strip()
strip(s) == rstrip(lstrip(s))

\* str.rstrip("\n")
RECURSIVE rstrip_nl(_)
rstrip_nl(s) ==
    IF s # <<>> /\ s[Len(s)] = "\n"
    THEN rstrip_nl(SubSeq(s, 1, Len(s) - 1)) ELSE s

\* the longest prefix of s holding no character of stop
RECURSIVE TakeUntil(_, _)
TakeUntil(s, stop) ==
    IF s = <<>> \/ Head(s) \in stop THEN <<>>
    ELSE <<Head(s)>> \o TakeUntil(Tail(s), stop)

\* str.split()[0] of a string that holds a token
first_field(s) == TakeUntil(lstrip(s), Whitespace)

\* str.split("\t", 1)[0]
before_tab(s) == TakeUntil(s, {"\t"})

\* str.startswith("@")
startswith_at(s) == s # <<>> /\ Head(s) = "@"

\* one decimal digit
Digit(d) == CASE d = 0 -> "0" [] d = 1 -> "1" [] d = 2 -> "2" [] d = 3 -> "3"
              [] d = 4 -> "4" [] d = 5 -> "5" [] d = 6 -> "6" [] d = 7 -> "7"
              [] d = 8 -> "8" [] d = 9 -> "9"

\* f"{n}" of an int n >= 0 (repeatsize is a minimum of absolute values)
RECURSIVE format_int(_)
format_int(n) ==
    IF n < 10 THEN <<Digit(n)>> ELSE format_int(n \div 10) \o <<Digit(n % 10)>>

(***************************************************************************)
(* parse_fastq: one iteration of its while loop.                           *)
(***************************************************************************)
\* fh.readline() of a handle that has consumed p lines of file f:
\* the next line, or the empty str at end of file
readline(f, p) == IF p < Len(f) THEN f[p + 1] ELSE EmptyStr

\* the identifier without the marker character
read_id_drop_marker(variant, id_line) ==
    IF variant = "only" THEN Tail(before_tab(rstrip_nl(id_line)))
    ELSE Tail(first_field(strip(id_line)))

\* the read identifier each script's parser computes from the header line
read_id(variant, id_line) ==
    IF variant = "only" THEN before_tab(rstrip_nl(id_line))
    ELSE first_field(strip(id_line))

\* a loop body that tests the marker before it reads the three body lines
parse_block_early_skip(variant, f, p) ==
    LET id_line   == readline(f, p)
        seq_line  == readline(f, p + 1)
        plus_line == readline(f, p + 2)
        qual_line == readline(f, p + 3)
    IN  IF id_line = EmptyStr
        THEN [kind |-> "end", pos |-> p, rid |-> EmptyStr, seq |-> EmptyStr]
        ELSE IF ~startswith_at(id_line)
        THEN [kind |-> "skip", pos |-> p + 1, rid |-> EmptyStr, seq |-> EmptyStr]
        ELSE IF ~(seq_line # EmptyStr /\ plus_line # EmptyStr /\ qual_line # EmptyStr)
        THEN [kind |-> "end", pos |-> Min2(p + 4, Len(f)),
              rid |-> EmptyStr, seq |-> EmptyStr]
        ELSE [kind |-> "yield", pos |-> p + 4,
              rid |-> read_id(variant, id_line), seq |-> strip(seq_line)]

\* One pass of the loop body from a handle at line p: kind is "end" (break),
\* "skip" (continue) or "yield"; pos is the handle's position afterwards.
parse_block(variant, f, p) ==
    LET id_line   == readline(f, p)
        seq_line  == readline(f, p + 1)
        plus_line == readline(f, p + 2)
        qual_line == readline(f, p + 3)
    IN  IF id_line = EmptyStr
        THEN [kind |-> "end", pos |-> p, rid |-> EmptyStr, seq |-> EmptyStr]
        ELSE IF ~(seq_line # EmptyStr /\ plus_line # EmptyStr /\ qual_line # EmptyStr)
        THEN [kind |-> "end", pos |-> Min2(p + 4, Len(f)),
              rid |-> EmptyStr, seq |-> EmptyStr]
        ELSE IF ~startswith_at(id_line)
        THEN [kind |-> "skip", pos |-> p + 4, rid |-> EmptyStr, seq |-> EmptyStr]
        ELSE [kind |-> "yield", pos |-> p + 4,
              rid |-> read_id(variant, id_line), seq |-> strip(seq_line)]

(***************************************************************************)
(* Best-hit selection over the candidates of one aligner.map(seq) call.    *)
(* A candidate is a record [mapq, q_st, q_en].                             *)
(***************************************************************************)
\* a comparison of scores by quality alone
pair_gt_quality_only(a, b) == a[1] > b[1]

\* the comparison with >= in place of >
pair_ge(a, b) == a[1] > b[1] \/ (a[1] = b[1] /\ a[2] >= b[2])

\* Python's tuple comparison a > b of two pairs of ints
pair_gt(a, b) == a[1] > b[1] \/ (a[1] = b[1] /\ a[2] > b[2])

\* the for loop of the flank script's best_hit_q_coords, from candidate i on
RECURSIVE strict_loop(_, _, _, _, _, _)
strict_loop(hits, i, qmin, smin, best, best_score) ==
    IF i > Len(hits) THEN best
    ELSE LET a     == hits[i]
             span  == a.q_en - a.q_st
             score == <<a.mapq, span>>
         IN  IF a.mapq >= qmin /\ span >= smin /\ pair_gt(score, best_score)
             THEN strict_loop(hits, i + 1, qmin, smin, <<a.q_st, a.q_en>>, score)
             ELSE strict_loop(hits, i + 1, qmin, smin, best, best_score)

\* Extract_tgt_flanks_mappy.best_hit_q_coords(aligner, seq, min_mapq, min_span)
best_hit_q_coords_flanks(hits, qmin, smin) ==
    strict_loop(hits, 1, qmin, smin, None, <<-1, -1>>)

\* the for loop of the repeat-size script's best_hit_q_coords
RECURSIVE relaxed_loop(_, _, _, _, _)
relaxed_loop(hits, i, qmin, best, best_mapq) ==
    IF i > Len(hits) THEN best
    ELSE LET a == hits[i]
         IN  IF a.mapq >= qmin /\ a.q_en > a.q_st /\ a.mapq > best_mapq
             THEN relaxed_loop(hits, i + 1, qmin, <<a.q_st, a.q_en>>, a.mapq)
             ELSE relaxed_loop(hits, i + 1, qmin, best, best_mapq)

\* the selector with best_mapq starting at the threshold instead of -1
best_hit_q_coords_from_qmin(hits, qmin) == relaxed_loop(hits, 1, qmin, None, qmin)

\* Target_seq_extraction.best_hit_q_coords(aligner, seq, min_mapq)
best_hit_q_coords_repeat(hits, qmin) == relaxed_loop(hits, 1, qmin, None, -1)

\* the for loop of has_hit: the final best_mapq
RECURSIVE has_hit_loop(_, _, _)
has_hit_loop(hits, i, best_mapq) ==
    IF i > Len(hits) THEN best_mapq
    ELSE LET a == hits[i]
         IN  IF a.q_en > a.q_st /\ a.mapq > best_mapq
             THEN has_hit_loop(hits, i + 1, a.mapq)
             ELSE has_hit_loop(hits, i + 1, best_mapq)

\* Extract_tgt_only_mappy.has_hit(aligner, seq, min_mapq)
has_hit(hits, qmin) == has_hit_loop(hits, 1, -1) >= qmin

\* "if not x" of an Optional[Tuple[int, int]]: None is false, a pair is true
is_falsy(x) == x = None

(***************************************************************************)
(* Repeat-size estimate (Target_seq_extraction.main).                      *)
(***************************************************************************)
\* min() of a tuple of four ints
min4(c) == Min2(Min2(c[1], c[2]), Min2(c[3], c[4]))

\* candidates = (abs(u0 - d0), abs(u0 - d1), abs(u1 - d0), abs(u1 - d1))
candidates(u, d) ==
    <<Abs(u[1] - d[1]), Abs(u[1] - d[2]), Abs(u[2] - d[1]), Abs(u[2] - d[2])>>

\* the gap from the end of the upstream hit to the start of the downstream hit
repeatsize_gap(u, d) == Abs(d[1] - u[2])

\* the minimum over the two distances from the first upstream endpoint only
repeatsize_from_u0(u, d) == Min2(Abs(u[1] - d[1]), Abs(u[1] - d[2]))

\* repeatsize = min(candidates)
repeatsize(u, d) == min4(candidates(u, d))

(***************************************************************************)
(* File names and the output path each script derives.                     *)
(***************************************************************************)
DotFastq == <<".", "f", "a", "s", "t", "q">>

\* str.endswith
endswith(s, suf) ==
    Len(s) >= Len(suf) /\ SubSeq(s, Len(s) - Len(suf) + 1, Len(s)) = suf

\* re.sub(r"\.fastq$", repl, name) of a name without a line break
re_sub_fastq(repl, name) ==
    IF endswith(name, DotFastq)
    THEN SubSeq(name, 1, Len(name) - Len(DotFastq)) \o repl
    ELSE name

\* the start of the last occurrence of sub in s, 0 when there is none
RECURSIVE rfind(_, _, _)
rfind(s, sub, i) ==
    IF i < 1 THEN 0
    ELSE IF SubSeq(s, i, i + Len(sub) - 1) = sub THEN i
    ELSE rfind(s, sub, i - 1)

\* name.rsplit(".fastq", 1)[0]
rsplit_fastq_0(name) ==
    LET i == rfind(name, DotFastq, Len(name) - Len(DotFastq) + 1)
    IN  IF i = 0 THEN name ELSE SubSeq(name, 1, i - 1)

\* the path opened for writing when no --out is given
output_path(s, name) ==
    CASE s = "repeat" -> re_sub_fastq(<<".", "t", "a", "r", "g", "e", "t", ".", "p", "o", "s", "i", "t", "i", "v", "e">>, name)
      [] s = "flanks" ->
            LET out == re_sub_fastq(<<".", "t", "g", "t", "_", "f", "l", "a", "n", "k", "s", ".", "f", "a">>, name)
            IN  IF out = name THEN name \o <<".", "t", "g", "t", "_", "f", "l", "a", "n", "k", "s", ".", "f", "a">> ELSE out
      [] s = "only"   -> rsplit_fastq_0(name) \o <<".", "t", "g", "t", ".", "f", "a", "s", "t", "a">>

\* out.write("Repeatsize\tReadID\tSequence\n")
HeaderRow == <<"R", "e", "p", "e", "a", "t", "s", "i", "z", "e", "\t", "R", "e", "a", "d", "I", "D", "\t", "S", "e", "q", "u", "e", "n", "c", "e", "\n">>

(***************************************************************************)
(* The inputs of a run.                                                    *)
(***************************************************************************)
Scripts == {"repeat", "flanks", "only"}

\* the references a script builds an index of, in the order it builds them
Refs(s) == IF s = "repeat" THEN <<"up", "down", "tgt">> ELSE <<"tgt">>

RefSet(s) == {Refs(s)[i] : i \in 1..Len(Refs(s))}

\* a name ending in .fastq and one that does not
FastqNames == {<<"r", ".", "f", "a", "s", "t", "q">>, <<"r", ".", "f", "q">>}

\* the record of the end-to-end scenarios
RecordR1 == <<<<"@", "r", "1", "\n">>, <<"A", "C", "G", "T", "A", "C", "G", "T", "A", "C", "G", "T", "\n">>, <<"+", "\n">>, <<"I", "I", "I", "I", "I", "I", "I", "I", "I", "I", "I", "I", "\n">>>>

\* two short records with a header of two fields, a block without the marker
\* between them, and a truncated last block
FileTwoReads ==
    <<<<"@", "a", " ", "x", "\n">>, <<"A", "C", "\n">>, <<"+", "\n">>, <<"I", "I", "\n">>,
      <<"j", "u", "n", "k", "\n">>, <<"G", "G", "\n">>, <<"+", "\n">>, <<"I", "I", "\n">>,
      <<"@", "b", "\t", "c", " ", "d", "\n">>, <<" ", "A", "C", "G", " ", "\n">>, <<"+", "\n">>, <<"I", "I", "I", "\n">>,
      <<"@", "c", "\n">>, <<"A", "C">>>>

RunFiles == {<<>>, RecordR1, FileTwoReads}

\* what the output path may hold before the run
OldOutputs == {<<>>, <<<<"s", "t", "a", "l", "e", "\n">>>>}

\* the candidates mappy may report for a read of length n
RunMapq == {5, 30}

RunIntervals(n) ==
    {iv \in (IF n >= 12
             THEN {<<0, 4>>, <<8, 12>>, <<3, 9>>, <<0, 12>>}
             ELSE {<<1, 2>>, <<0, n>>, <<1, 1>>}) : iv[1] <= iv[2] /\ iv[2] <= n}

RunHits(n) ==
    {[mapq |-> q, q_st |-> iv[1], q_en |-> iv[2]] : q \in RunMapq, iv \in RunIntervals(n)}

SeqsUpTo(S, n) == UNION {[1..k -> S] : k \in 0..n}

\* aligner.map(seq): any list of at most MaxHits candidates
CandLists(s) == SeqsUpTo(RunHits(Len(s)), MaxHits)

\* mappy held to no function: every call may return any list
NoAnswers == [q \in {} |-> <<>>]

(***************************************************************************)
(* The run of a script.                                                    *)
(***************************************************************************)
outputname == output_path(script, fastqname)

\* the loop variables before the first assignment
Unbound == None

\* what aligner.map(seq) of the aligner built from ref may return
map(ref, s) ==
    IF <<ref, s>> \in DOMAIN aligner THEN {aligner[<<ref, s>>]} ELSE CandLists(s)

argvars  == <<script, fastqname, idx_ok, min_mapq, min_span, min_flank_len,
              aligner, run, first_out, est>>
readvars == <<fh_pos, rid, seq, count_in, yielded>>
hitvars  == <<up, down, tgt, hit, has>>
outvars  == <<disk, count_pass, n_hit, n_out, accepted, wlog>>
endvars  == <<out_mode, stderr, exit_code>>

\* where main starts: the first mp.Aligner
first_pc(s) == IF s = "repeat" THEN "build_up" ELSE "build_tgt"

InitRun(content, old) ==
    /\ disk = (fastqname :> content) @@ (outputname :> old)
    /\ fh_pos = 0
    /\ rid = Unbound /\ seq = Unbound
    /\ up = Unbound /\ down = Unbound /\ tgt = Unbound /\ hit = Unbound
    /\ has = FALSE
    /\ cand = <<>>
    /\ queried = <<>>
    /\ count_in = 0 /\ count_pass = 0 /\ n_hit = 0 /\ n_out = 0
    /\ out_mode = "none"
    /\ stderr = <<>>
    /\ exit_code = -1
    /\ yielded = <<>> /\ accepted = <<>> /\ wlog = <<>>
    /\ run = 1
    /\ first_out = None
    /\ est = None

Init ==
    /\ script \in Scripts
    /\ fastqname \in FastqNames
    /\ idx_ok \in [RefSet(script) -> BOOLEAN]
    /\ min_mapq = 10
    /\ min_span \in (IF script = "flanks" THEN {1, 5} ELSE {0})
    /\ min_flank_len \in (IF script = "flanks" THEN {0, 1, 4} ELSE {0})
    /\ \E content \in RunFiles, old \in OldOutputs : InitRun(content, old)
    /\ pc = first_pc(script)
    /\ aligner = NoAnswers

\* sys.exit status of a failed mp.Aligner
fail_status(s) == IF s = "flanks" THEN 2 ELSE 1

\* mp.Aligner(ref, ...) without the "if not aln" that follows it
BuildAligner_unchecked(ref, next) ==
    /\ pc = "build_" \o ref
    /\ pc' = next
    /\ UNCHANGED <<argvars, readvars, hitvars, outvars, endvars, cand, queried>>

\* aln = mp.Aligner(ref, ...); if not aln: write the diagnostic, sys.exit
BuildAligner(ref, next) ==
    /\ pc = "build_" \o ref
    /\ IF idx_ok[ref]
       THEN /\ pc' = next
            /\ UNCHANGED endvars
       ELSE /\ pc' = "exit"
            /\ stderr' = Append(stderr, [kind |-> "ERROR", ref |-> ref])
            /\ exit_code' = fail_status(script)
            /\ UNCHANGED out_mode
    /\ UNCHANGED <<argvars, readvars, hitvars, outvars, cand, queried>>

BuildUp == BuildAligner("up", "build_down")

BuildDown == BuildAligner("down", "build_tgt")

BuildTgt == BuildAligner("tgt", "open_out")

\* the output opened for appending, what it holds kept
OpenOutput_append ==
    /\ pc = "open_out"
    /\ disk' = [disk EXCEPT ![outputname] =
                    IF script = "repeat" THEN Append(@, HeaderRow) ELSE @]
    /\ out_mode' = "a"
    /\ pc' = "loop"
    /\ UNCHANGED <<argvars, readvars, hitvars, cand, queried, count_pass,
                   n_hit, n_out, accepted, wlog, stderr, exit_code>>

\* repeat: open "w", write the header row, close, open "a";
\* flanks, only: open "w"
OpenOutput ==
    /\ pc = "open_out"
    /\ disk' = [disk EXCEPT ![outputname] =
                    IF script = "repeat" THEN <<HeaderRow>> ELSE <<>>]
    /\ out_mode' = IF script = "repeat" THEN "a" ELSE "w"
    /\ pc' = "loop"
    /\ UNCHANGED <<argvars, readvars, hitvars, cand, queried, count_pass,
                   n_hit, n_out, accepted, wlog, stderr, exit_code>>

block == parse_block(script, disk[fastqname], fh_pos)

\* the [INFO] line written after the loop
summary ==
    [kind |-> "INFO", processed |-> count_in,
     hit |-> n_hit,
     passed |-> IF script = "flanks" THEN n_out ELSE count_pass]

\* parse_fastq breaks: the for loop ends, the output is closed, the summary
\* is written
ReadEnd ==
    /\ pc = "loop"
    /\ block.kind = "end"
    /\ fh_pos' = block.pos
    /\ out_mode' = "closed"
    /\ stderr' = Append(stderr, summary)
    /\ exit_code' = 0
    /\ pc' = "done"
    /\ UNCHANGED <<argvars, rid, seq, count_in, yielded, hitvars, outvars,
                   cand, queried>>

\* parse_fastq continues past a block whose header lacks the marker
ReadSkip ==
    /\ pc = "loop"
    /\ block.kind = "skip"
    /\ fh_pos' = block.pos
    /\ UNCHANGED <<argvars, pc, rid, seq, count_in, yielded, hitvars, outvars,
                   endvars, cand, queried>>

\* parse_fastq yields (rid, seq); the loop body starts with the counter
ReadYield ==
    /\ pc = "loop"
    /\ block.kind = "yield"
    /\ fh_pos' = block.pos
    /\ rid' = block.rid
    /\ seq' = block.seq
    /\ yielded' = Append(yielded, <<block.rid, block.seq>>)
    /\ count_in' = count_in + 1
    /\ queried' = <<>>
    /\ pc' = IF script = "repeat" THEN "map_up" ELSE "map_tgt"
    /\ UNCHANGED <<argvars, hitvars, outvars, endvars, cand>>

ReadBlock == ReadEnd \/ ReadSkip \/ ReadYield

\* x = best_hit_q_coords(aln, seq, args.min_mapq); if not x: continue
MapUp ==
    /\ pc = "map_up"
    /\ \E c \in map("up", seq) :
          /\ cand' = c
          /\ up' = best_hit_q_coords_repeat(c, min_mapq)
    /\ queried' = Append(queried, "up")
    /\ pc' = IF is_falsy(up') THEN "loop" ELSE "map_down"
    /\ UNCHANGED <<argvars, readvars, down, tgt, hit, has, outvars, endvars>>

\* the downstream query without its "if not down: continue"
MapDown_no_continue ==
    /\ pc = "map_down"
    /\ \E c \in map("down", seq) :
          /\ cand' = c
          /\ down' = best_hit_q_coords_repeat(c, min_mapq)
    /\ queried' = Append(queried, "down")
    /\ pc' = "map_tgt"
    /\ UNCHANGED <<argvars, readvars, up, tgt, hit, has, outvars, endvars>>

MapDown ==
    /\ pc = "map_down"
    /\ \E c \in map("down", seq) :
          /\ cand' = c
          /\ down' = best_hit_q_coords_repeat(c, min_mapq)
    /\ queried' = Append(queried, "down")
    /\ pc' = IF is_falsy(down') THEN "loop" ELSE "map_tgt"
    /\ UNCHANGED <<argvars, readvars, up, tgt, hit, has, outvars, endvars>>

MapTgt ==
    /\ pc = "map_tgt"
    /\ script = "repeat"
    /\ \E c \in map("tgt", seq) :
          /\ cand' = c
          /\ tgt' = best_hit_q_coords_repeat(c, min_mapq)
    /\ queried' = Append(queried, "tgt")
    /\ pc' = IF is_falsy(tgt') THEN "loop" ELSE "write_row"
    /\ UNCHANGED <<argvars, readvars, up, down, hit, has, outvars, endvars>>

\* f"{repeatsize}\t{rid}\t{seq}\n"
row(n, r, s) == format_int(n) \o <<"\t">> \o r \o <<"\t">> \o s \o <<"\n">>

\* the write of the row without count_pass += 1
WriteRow_no_count ==
    /\ pc = "write_row"
    /\ disk' = [disk EXCEPT ![outputname] =
                    Append(@, row(repeatsize(up, down), rid, seq))]
    /\ accepted' = Append(accepted, count_in)
    /\ wlog' = Append(wlog, count_in)
    /\ pc' = "loop"
    /\ UNCHANGED <<argvars, readvars, hitvars, count_pass, n_hit, n_out, endvars,
                   cand, queried>>

\* the estimate, out.write of the row, count_pass += 1
WriteRow ==
    /\ pc = "write_row"
    /\ disk' = [disk EXCEPT ![outputname] =
                    Append(@, row(repeatsize(up, down), rid, seq))]
    /\ count_pass' = count_pass + 1
    /\ accepted' = Append(accepted, count_in)
    /\ wlog' = Append(wlog, count_in)
    /\ pc' = "loop"
    /\ UNCHANGED <<argvars, readvars, hitvars, n_hit, n_out, endvars, cand, queried>>

\* hit = best_hit_q_coords(aln, seq, args.min_mapq, args.min_span)
MapHit ==
    /\ pc = "map_tgt"
    /\ script = "flanks"
    /\ \E c \in map("tgt", seq) :
          /\ cand' = c
          /\ hit' = best_hit_q_coords_flanks(c, min_mapq, min_span)
    /\ queried' = Append(queried, "tgt")
    /\ pc' = IF is_falsy(hit') THEN "loop" ELSE "write_flanks"
    /\ UNCHANGED <<argvars, readvars, up, down, tgt, has, outvars, endvars>>

\* f">{rid}{suffix}\n{s}\n": a header line and a sequence line
fasta(r, suffix, s) == << <<">">> \o r \o suffix \o <<"\n">>, s \o <<"\n">> >>

SuffixUp == <<"_", "u", "p">>
SuffixDown == <<"_", "d", "o", "w", "n">>

\* the length test with > in place of >=
long_enough_strict(flank) == Len(flank) > min_flank_len

\* whether a flank of this length is written
long_enough(flank) == Len(flank) >= min_flank_len

\* up = seq[:q_st]
flank_up(s, h) == Slice(s, 0, h[1])

\* dn = seq[q_en:]
flank_down(s, h) == Slice(s, h[2], Len(s))

\* n_hit += 1 and the two conditional writes
WriteFlanks ==
    /\ pc = "write_flanks"
    /\ LET u  == flank_up(seq, hit)
           dn == flank_down(seq, hit)
           wu == IF long_enough(u) THEN fasta(rid, SuffixUp, u) ELSE <<>>
           wd == IF long_enough(dn) THEN fasta(rid, SuffixDown, dn) ELSE <<>>
           k  == (IF long_enough(u) THEN 1 ELSE 0) + (IF long_enough(dn) THEN 1 ELSE 0)
       IN  /\ disk' = [disk EXCEPT ![outputname] = @ \o wu \o wd]
           /\ n_out' = n_out + k
           /\ wlog' = wlog \o [i \in 1..k |-> count_in]
    /\ n_hit' = n_hit + 1
    /\ accepted' = Append(accepted, count_in)
    /\ pc' = "loop"
    /\ UNCHANGED <<argvars, readvars, hitvars, count_pass, endvars, cand, queried>>

\* if has_hit(tgt_aln, seq, args.min_mapq):
HasHit ==
    /\ pc = "map_tgt"
    /\ script = "only"
    /\ \E c \in map("tgt", seq) :
          /\ cand' = c
          /\ has' = has_hit(c, min_mapq)
    /\ queried' = Append(queried, "tgt")
    /\ pc' = IF has' THEN "write_fasta" ELSE "loop"
    /\ UNCHANGED <<argvars, readvars, up, down, tgt, hit, outvars, endvars>>

\* n_out += 1 without the out.write
WriteFasta_no_write ==
    /\ pc = "write_fasta"
    /\ count_pass' = count_pass + 1
    /\ accepted' = Append(accepted, count_in)
    /\ pc' = "loop"
    /\ UNCHANGED <<argvars, readvars, hitvars, disk, wlog, n_hit, n_out, endvars,
                   cand, queried>>

\* out.write(f">{rid}\n{seq}\n"); n_out += 1
WriteFasta ==
    /\ pc = "write_fasta"
    /\ disk' = [disk EXCEPT ![outputname] = @ \o fasta(rid, <<>>, seq)]
    /\ count_pass' = count_pass + 1
    /\ accepted' = Append(accepted, count_in)
    /\ wlog' = Append(wlog, count_in)
    /\ pc' = "loop"
    /\ UNCHANGED <<argvars, readvars, hitvars, n_hit, n_out, endvars, cand, queried>>

Next ==
    \/ BuildUp \/ BuildDown \/ BuildTgt
    \/ OpenOutput
    \/ ReadBlock
    \/ MapUp \/ MapDown \/ MapTgt \/ WriteRow
    \/ MapHit \/ WriteFlanks
    \/ HasHit \/ WriteFasta

Spec == Init /\ [][Next]_vars

(***************************************************************************)
(* The parser alone: every file of at most MaxLines lines, read by a loop  *)
(* whose body does nothing.                                                *)
(***************************************************************************)
\* a line that starts with the marker and holds two fields, and a line that
\* does not start with it
FqLines == {<<"@", "a", " ", "b", "\n">>, <<" ", "A", "C", "\n">>}

\* a last line without its line break
FqTails == {<<>>, <<<<"I">>>>}

FqFiles ==
    {body \o tail : body \in SeqsUpTo(FqLines, MaxLines), tail \in FqTails}

InitFq ==
    /\ script \in {"repeat", "only"}
    /\ fastqname = <<"r", ".", "f", "a", "s", "t", "q">>
    /\ idx_ok = [r \in RefSet(script) |-> TRUE]
    /\ min_mapq = 10 /\ min_span = 0 /\ min_flank_len = 0
    /\ \E content \in FqFiles :
          /\ Len(content) <= MaxLines
          /\ InitRun(content, <<>>)
    /\ pc = first_pc(script)
    /\ aligner = NoAnswers

\* the body of "for rid, seq in parse_fastq(...)" when it only continues
Consume ==
    /\ pc \in {"map_up", "map_tgt"}
    /\ pc' = "loop"
    /\ UNCHANGED <<argvars, readvars, hitvars, outvars, endvars, cand, queried>>

NextFq ==
    \/ BuildUp \/ BuildDown \/ BuildTgt
    \/ OpenOutput
    \/ ReadBlock
    \/ Consume

SpecFq == InitFq /\ [][NextFq]_vars

(***************************************************************************)
(* The selectors alone: every list of at most MaxHits candidates, every    *)
(* threshold of a small range.                                             *)
(***************************************************************************)
SelMapq == 0..2
SelCoords == 0..2
SelThresholds == -1..3

SelHits ==
    {[mapq |-> q, q_st |-> s, q_en |-> e] : q \in SelMapq, s \in SelCoords, e \in SelCoords}

InitSel ==
    /\ script = "flanks"
    /\ fastqname = <<"r", ".", "f", "a", "s", "t", "q">>
    /\ idx_ok = [r \in RefSet(script) |-> TRUE]
    /\ min_mapq \in SelThresholds
    /\ min_span \in SelThresholds
    /\ min_flank_len = 0
    /\ InitRun(<<>>, <<>>)
    /\ pc = "select"
    /\ aligner = NoAnswers

\* one aligner.map result handed to the three selectors
Select ==
    /\ pc = "select"
    /\ \E c \in SeqsUpTo(SelHits, MaxHits) :
          /\ cand' = c
          /\ hit' = best_hit_q_coords_flanks(c, min_mapq, min_span)
          /\ up' = best_hit_q_coords_repeat(c, min_mapq)
          /\ has' = has_hit(c, min_mapq)
    /\ pc' = "selected"
    /\ UNCHANGED <<argvars, readvars, down, tgt, outvars, endvars, queried>>

SpecSel == InitSel /\ [][Select]_vars

(***************************************************************************)
(* The estimator alone: every pair of intervals with endpoints of a small  *)
(* range of integers, in either order.                                     *)
(***************************************************************************)
EstCoords == -3..3

InitEst ==
    /\ script = "repeat"
    /\ fastqname = <<"r", ".", "f", "a", "s", "t", "q">>
    /\ idx_ok = [r \in RefSet(script) |-> TRUE]
    /\ min_mapq = 10 /\ min_span = 0 /\ min_flank_len = 0
    /\ InitRun(<<>>, <<>>)
    /\ pc = "estimate"
    /\ aligner = NoAnswers

\* a coordinate pair with its two endpoints exchanged
swapped(iv) == <<iv[2], iv[1]>>

\* u0, u1 = up; d0, d1 = down; repeatsize = min(candidates), computed for
\* up and down as given and with the endpoints of either or both exchanged
Estimate ==
    /\ pc = "estimate"
    /\ \E a \in EstCoords, b \in EstCoords, c \in EstCoords, d \in EstCoords :
          /\ up' = <<a, b>>
          /\ down' = <<c, d>>
    /\ est' = <<repeatsize(up', down'),
                repeatsize(swapped(up'), down'),
                repeatsize(up', swapped(down')),
                repeatsize(swapped(up'), swapped(down'))>>
    /\ pc' = "estimated"
    /\ UNCHANGED <<script, fastqname, idx_ok, min_mapq, min_span, min_flank_len,
                   aligner, run, first_out, readvars, tgt, hit, has, outvars,
                   endvars, cand, queried>>

SpecEst == InitEst /\ [][Estimate]_vars

(***************************************************************************)
(* A script run twice in succession with the same arguments, mappy held to *)
(* a function of (reference, sequence).                                    *)
(***************************************************************************)
\* the block of FileTwoReads whose header lacks the marker
JunkBlock == SubSeq(FileTwoReads, 5, 8)

\* no read, one read, and the same read twice around a block that is skipped
TwiceFiles == {<<>>, RecordR1, RecordR1 \o JunkBlock \o RecordR1}

\* the sequences parse_fastq yields from these files
TwiceSeqs == {strip(RecordR1[2])}

TwiceHits ==
    {[mapq |-> 30, q_st |-> 0, q_en |-> 4], [mapq |-> 30, q_st |-> 8, q_en |-> 12]}

\* the functions mappy may be: a list of at most MaxHits candidates for
\* every reference and sequence
Aligners(s) == [RefSet(s) \X TwiceSeqs -> SeqsUpTo(TwiceHits, MaxHits)]

\* every index builds, or the target index fails
TwiceIndexes(s) == {[r \in RefSet(s) |-> TRUE], [r \in RefSet(s) |-> r # "tgt"]}

InitTwice ==
    /\ script \in Scripts
    /\ fastqname \in FastqNames
    /\ idx_ok \in TwiceIndexes(script)
    /\ min_mapq = 10
    /\ min_span \in (IF script = "flanks" THEN {1, 5} ELSE {0})
    /\ min_flank_len \in (IF script = "flanks" THEN {0, 1, 4} ELSE {0})
    /\ \E content \in TwiceFiles, old \in OldOutputs : InitRun(content, old)
    /\ pc = first_pc(script)
    /\ aligner \in Aligners(script)

\* the process has ended; the same command line is started again on the
\* files as the first run left them
Rerun ==
    /\ pc \in {"done", "exit"}
    /\ run = 1
    /\ run' = 2
    /\ first_out' = disk[outputname]
    /\ pc' = first_pc(script)
    /\ fh_pos' = 0
    /\ rid' = Unbound /\ seq' = Unbound
    /\ up' = Unbound /\ down' = Unbound /\ tgt' = Unbound /\ hit' = Unbound
    /\ has' = FALSE
    /\ cand' = <<>>
    /\ queried' = <<>>
    /\ count_in' = 0 /\ count_pass' = 0 /\ n_hit' = 0 /\ n_out' = 0
    /\ out_mode' = "none"
    /\ stderr' = <<>>
    /\ exit_code' = -1
    /\ yielded' = <<>> /\ accepted' = <<>> /\ wlog' = <<>>
    /\ UNCHANGED <<script, fastqname, idx_ok, min_mapq, min_span, min_flank_len,
                   aligner, est, disk>>

NextTwice ==
    \/ BuildUp \/ BuildDown \/ BuildTgt
    \/ OpenOutput
    \/ ReadBlock
    \/ MapUp \/ MapDown \/ MapTgt \/ WriteRow
    \/ MapHit \/ WriteFlanks
    \/ HasHit \/ WriteFasta
    \/ Rerun

SpecTwice == InitTwice /\ [][NextTwice]_vars

(***************************************************************************)
(* Properties of the selectors (SpecSel).                                  *)
(***************************************************************************)
span_of(a) == a.q_en - a.q_st

interval_of(a) == <<a.q_st, a.q_en>>

lex_le(a, b) == a[1] < b[1] \/ (a[1] = b[1] /\ a[2] <= b[2])

\* the candidates of cand that meet both thresholds of the flank script
StrictQualifying ==
    {i \in 1..Len(cand) : cand[i].mapq >= min_mapq /\ span_of(cand[i]) >= min_span}

\* the candidates of cand with positive span and quality >= min_mapq
RelaxedQualifying ==
    {i \in 1..Len(cand) : cand[i].q_en > cand[i].q_st /\ cand[i].mapq >= min_mapq}

\* C1: strict selection returns None exactly when no candidate meets both
\* thresholds; otherwise it returns the interval of a qualifying candidate
\* whose (quality, span) is lexicographically maximal among the qualifying
\* candidates.
C1_StrictBestHit ==
    pc = "selected" =>
        /\ (hit = None) <=> (StrictQualifying = {})
        /\ hit # None =>
              \E i \in StrictQualifying :
                 /\ hit = interval_of(cand[i])
                 /\ \A j \in StrictQualifying :
                       lex_le(<<cand[j].mapq, span_of(cand[j])>>,
                              <<cand[i].mapq, span_of(cand[i])>>)

\* two qualifying candidates of equal quality, the later one with the larger
\* span, which is the one returned
C1_Witness ==
    /\ pc = "selected"
    /\ Len(cand) = 2
    /\ StrictQualifying = {1, 2}
    /\ cand[1].mapq = cand[2].mapq
    /\ span_of(cand[2]) > span_of(cand[1])
    /\ hit = interval_of(cand[2])
    /\ hit # interval_of(cand[1])

\* C2: relaxed selection returns None exactly when no candidate has positive
\* span and quality >= min_mapq; otherwise it returns the interval of such a
\* candidate whose quality is the maximum over all of them, whatever its span.
C2_RelaxedBestHit ==
    pc = "selected" =>
        /\ (up = None) <=> (RelaxedQualifying = {})
        /\ up # None =>
              \E i \in RelaxedQualifying :
                 /\ up = interval_of(cand[i])
                 /\ \A j \in RelaxedQualifying : cand[j].mapq <= cand[i].mapq

\* the shorter of two qualifying candidates is returned for its quality, and a
\* candidate whose quality equals the threshold qualifies
C2_Witness ==
    /\ pc = "selected"
    /\ Len(cand) = 2
    /\ RelaxedQualifying = {1, 2}
    /\ cand[2].mapq > cand[1].mapq
    /\ cand[1].mapq = min_mapq
    /\ span_of(cand[2]) < span_of(cand[1])
    /\ up = interval_of(cand[2])

\* C13: has_hit returns true exactly when some candidate has q_en > q_st and
\* mapq >= min_mapq, for every candidate list, the empty one included, and
\* every threshold, zero and negative ones included; that is, exactly when
\* the relaxed best_hit_q_coords returns a result on the same candidates and
\* threshold.
C13_HasHitAcceptance ==
    pc = "selected" =>
        /\ has <=> (RelaxedQualifying # {})
        /\ has <=> (up # None)

\* the qualifying candidates whose score no qualifying candidate exceeds
StrictMaximal ==
    {i \in StrictQualifying :
        \A j \in StrictQualifying :
           lex_le(<<cand[j].mapq, span_of(cand[j])>>,
                  <<cand[i].mapq, span_of(cand[i])>>)}

RelaxedMaximal ==
    {i \in RelaxedQualifying : \A j \in RelaxedQualifying : cand[j].mapq <= cand[i].mapq}

\* the first of a nonempty set of positions in the aligner's iteration order
First(S) == CHOOSE i \in S : \A j \in S : i <= j

\* cand in the order given by the permutation p of its positions
Reordered(p) == [i \in 1..Len(cand) |-> cand[p[i]]]

\* whether the candidates at the positions of S all have the same interval
OneInterval(S) == \A i \in S, j \in S : interval_of(cand[i]) = interval_of(cand[j])

\* C15: in both selection modes the candidate returned is the first, in the
\* aligner's iteration order, of the qualifying candidates with the maximal
\* score ((mapq, span) in the strict mode, mapq in the relaxed mode); and
\* the interval returned is the same for every order of the candidates
\* whenever the qualifying candidates with the maximal score all have the
\* same interval.
C15_TieBreaking ==
    pc = "selected" =>
        /\ hit # None => hit = interval_of(cand[First(StrictMaximal)])
        /\ up # None => up = interval_of(cand[First(RelaxedMaximal)])
        /\ \A p \in Permutations(1..Len(cand)) :
              /\ OneInterval(StrictMaximal) =>
                    best_hit_q_coords_flanks(Reordered(p), min_mapq, min_span) = hit
              /\ OneInterval(RelaxedMaximal) =>
                    best_hit_q_coords_repeat(Reordered(p), min_mapq) = up

\* two qualifying candidates with the same quality and span and different
\* intervals: both selectors return the first, and the second when the two
\* are exchanged
C15_Witness ==
    /\ pc = "selected"
    /\ Len(cand) = 2
    /\ StrictMaximal = {1, 2} /\ RelaxedMaximal = {1, 2}
    /\ interval_of(cand[1]) # interval_of(cand[2])
    /\ hit = interval_of(cand[1]) /\ up = interval_of(cand[1])
    /\ best_hit_q_coords_flanks(<<cand[2], cand[1]>>, min_mapq, min_span) = interval_of(cand[2])
    /\ best_hit_q_coords_repeat(<<cand[2], cand[1]>>, min_mapq) = interval_of(cand[2])

(***************************************************************************)
(* Properties of the parser (SpecFq).                                      *)
(***************************************************************************)
\* r is line without its leading and trailing whitespace
IsStripOf(r, line) ==
    \E a \in 0..Len(line) : \E b \in a..Len(line) :
       /\ r = SubSeq(line, a + 1, b)
       /\ \A i \in 1..a : line[i] \in Whitespace
       /\ \A i \in (b + 1)..Len(line) : line[i] \in Whitespace
       /\ r # <<>> => (r[1] \notin Whitespace /\ r[Len(r)] \notin Whitespace)

\* the complete four-line blocks the parser has been through: all of them
\* once the stream has ended
BlocksDone == IF pc = "done" THEN Len(disk[fastqname]) \div 4 ELSE fh_pos \div 4

\* those of them whose header starts with the marker
MarkerBlocks ==
    {k \in 0..(BlocksDone - 1) : Head(disk[fastqname][4 * k + 1]) = "@"}

\* the i-th of them in input order
KthMarkerBlock(i) ==
    CHOOSE k \in MarkerBlocks : Cardinality({j \in MarkerBlocks : j < k}) = i - 1

\* C6: the parser goes through the file in consecutive four-line blocks; the
\* records yielded are, in input order, one per complete block whose header
\* starts with "@", each with the block's second line stripped as sequence; a
\* complete block without the marker yields nothing; the stream ends, with
\* status 0 and the whole file consumed, exactly when fewer than four lines
\* are left; never more than floor(lines / 4) records are yielded.
C6_FastqBlocks ==
    LET f == disk[fastqname]
    IN  /\ pc # "done" => (fh_pos % 4 = 0 /\ fh_pos <= Len(f))
        /\ pc = "done" => (fh_pos = Len(f) /\ exit_code = 0)
        /\ Len(yielded) = Cardinality(MarkerBlocks)
        /\ \A i \in 1..Len(yielded) :
              IsStripOf(yielded[i][2], f[4 * KthMarkerBlock(i) + 2])
        /\ Len(yielded) <= Len(f) \div 4
        /\ count_in = Len(yielded)

\* a block without the marker was skipped, the next block yielded a record
\* whose sequence lost its whitespace, and a last block of three lines, its
\* header starting with the marker, ended the stream
C6_Witness ==
    /\ pc = "done"
    /\ Len(disk[fastqname]) = 11
    /\ ~startswith_at(disk[fastqname][1])
    /\ startswith_at(disk[fastqname][5])
    /\ startswith_at(disk[fastqname][9])
    /\ disk[fastqname][6] = <<" ", "A", "C", "\n">>
    /\ Len(yielded) = 1
    /\ yielded[1][2] = <<"A", "C">>

(***************************************************************************)
(* Properties of a run (Spec).                                             *)
(***************************************************************************)
OutLines == disk[outputname]

\* the output entries written for the read being processed
CurEntries == Cardinality({i \in 1..Len(wlog) : wlog[i] = count_in})

\* the last n lines of the output file
LastLines(n) == SubSeq(OutLines, Len(OutLines) - n + 1, Len(OutLines))

\* the text of a line before its first tab
FirstField(r) ==
    LET i == CHOOSE k \in 1..Len(r) : r[k] = "\t" /\ \A j \in 1..(k - 1) : r[j] # "\t"
    IN  SubSeq(r, 1, i - 1)

DigitVal(c) == CASE c = "0" -> 0 [] c = "1" -> 1 [] c = "2" -> 2 [] c = "3" -> 3
                 [] c = "4" -> 4 [] c = "5" -> 5 [] c = "6" -> 6 [] c = "7" -> 7
                 [] c = "8" -> 8 [] c = "9" -> 9

\* the number a string of decimal digits denotes
RECURSIVE ParseNat(_)
ParseNat(t) ==
    IF Len(t) = 1 THEN DigitVal(t[1])
    ELSE 10 * ParseNat(SubSeq(t, 1, Len(t) - 1)) + DigitVal(t[Len(t)])

\* the four distances between an endpoint of u and an endpoint of d
EndpointDistances(u, d) ==
    {Abs(x - y) : x \in {u[1], u[2]}, y \in {d[1], d[2]}}

\* a row was written for the read being processed
RowWritten == script = "repeat" /\ pc = "loop" /\ count_in >= 1 /\ CurEntries = 1

\* C3: the value of a written row is the least of the four endpoint distances
\* of the upstream and downstream intervals, a non-negative integer; both
\* intervals were selected for this read and are present; the target interval
\* does not enter.
C3_RepeatSize ==
    RowWritten =>
        /\ queried = <<"up", "down", "tgt">>
        /\ up # None /\ down # None
        /\ LET e == ParseNat(FirstField(OutLines[Len(OutLines)]))
           IN  /\ e \in EndpointDistances(up, down)
               /\ \A x \in EndpointDistances(up, down) : e <= x
               /\ e >= 0

\* an overlapping arrangement, the upstream hit inside the downstream hit: the
\* estimate is 3, neither the gap between the hits nor a distance of the target
C3_Witness ==
    /\ RowWritten
    /\ up = <<3, 9>> /\ down = <<0, 12>> /\ tgt = <<8, 12>>
    /\ FirstField(OutLines[Len(OutLines)]) = <<"3">>

\* the result of the most recent query of the read being processed
LastResult ==
    CASE Len(queried) = 1 -> up [] Len(queried) = 2 -> down [] Len(queried) = 3 -> tgt

\* C4: the references are queried in the order up, down, tgt; a reference is
\* queried only after every earlier one gave a present result; after an
\* absent result control is back at the loop head; a row is written for a
\* read exactly when all three results are present.
C4_ShortCircuit ==
    script = "repeat" =>
        /\ \E k \in 0..3 : queried = SubSeq(<<"up", "down", "tgt">>, 1, k)
        /\ Len(queried) >= 2 => up # None
        /\ Len(queried) >= 3 => down # None
        /\ pc = "map_up" => queried = <<>>
        /\ pc = "map_down" => queried = <<"up">>
        /\ pc = "map_tgt" => queried = <<"up", "down">>
        /\ (Len(queried) >= 1 /\ LastResult = None) => pc \in {"loop", "done"}
        /\ (pc \in {"loop", "done"} /\ count_in >= 1) =>
              /\ CurEntries <= 1
              /\ CurEntries = 1 <=>
                    (Len(queried) = 3 /\ up # None /\ down # None /\ tgt # None)

\* the second read fails at the downstream flank: the target is not queried
\* and no row is written, though tgt still holds the first read's hit
C4_Witness ==
    /\ script = "repeat"
    /\ pc = "loop"
    /\ count_in = 2
    /\ queried = <<"up", "down">>
    /\ up # None /\ down = None /\ tgt # None
    /\ CurEntries = 0
    /\ wlog = <<1>>

\* the data rows (repeat) or FASTA records (only) in the output file
RowsInFile ==
    IF script = "repeat" THEN Len(OutLines) - 1 ELSE Len(OutLines) \div 2

CountersExact ==
    script \in {"repeat", "only"} =>
        /\ count_in = Len(yielded)
        /\ count_pass = Len(accepted)
        /\ out_mode # "none" => count_pass = RowsInFile
        /\ 0 <= count_pass /\ count_pass <= count_in
        /\ pc \in {"build_up", "build_down", "build_tgt", "open_out"} =>
              (count_in = 0 /\ count_pass = 0)

CountersStep ==
    script \in {"repeat", "only"} =>
        /\ count_in' \in {count_in, count_in + 1}
        /\ count_pass' \in {count_pass, count_pass + 1}
        /\ count_in' = count_in + 1 <=> yielded' # yielded
        /\ (pc \in {"map_up", "map_down", "map_tgt"} /\ pc' = "loop") =>
              (count_pass' = count_pass /\ disk' = disk /\ count_in' = count_in)

\* C5: in the repeat-size and filter scripts the input counter is the number
\* of records yielded so far and the pass counter the number of reads accepted
\* and of rows in the output, so pass <= input; both start at 0, change by
\* steps of one and never decrease; the step that rejects a read changes
\* neither the pass counter nor the output file.
C5_Counters == []CountersExact /\ [][CountersStep]_vars

\* scenario B: the downstream query of the one record returns only a hit of
\* quality 5; the read is rejected with the input counter at 1, the pass
\* counter at 0 and no row after the header
C5_Witness ==
    /\ script = "repeat"
    /\ pc = "loop"
    /\ disk[fastqname] = RecordR1
    /\ queried = <<"up", "down">>
    /\ cand = <<[mapq |-> 5, q_st |-> 8, q_en |-> 12]>>
    /\ down = None
    /\ count_in = 1 /\ count_pass = 0
    /\ OutLines = <<HeaderRow>>

\* r is the first whitespace-delimited token of line
IsFirstToken(r, line) ==
    /\ r # <<>>
    /\ \A i \in 1..Len(r) : r[i] \notin Whitespace
    /\ \E a \in 0..(Len(line) - Len(r)) :
          /\ \A i \in 1..a : line[i] \in Whitespace
          /\ SubSeq(line, a + 1, a + Len(r)) = r
          /\ a + Len(r) < Len(line) => line[a + Len(r) + 1] \in Whitespace

\* the header line of the record being processed
CurHeader == disk[fastqname][fh_pos - 3]

\* scenario A: a finished run of the repeat-size script over the one record,
\* upstream hit [0,4), downstream hit [8,12), target hit present
ScenarioA ==
    /\ script = "repeat"
    /\ pc = "done"
    /\ disk[fastqname] = RecordR1
    /\ queried = <<"up", "down", "tgt">>
    /\ up = <<0, 4>> /\ down = <<8, 12>> /\ tgt # None

\* C7 as claimed: the identifier is the header's first token without the
\* marker, and scenario A writes the row 4, r1, ACGTACGTACGT.
C7_Original ==
    /\ (script = "repeat" /\ pc = "map_up") => IsFirstToken(<<"@">> \o rid, CurHeader)
    /\ ScenarioA => OutLines = <<HeaderRow, <<"4", "\t", "r", "1", "\t", "A", "C", "G", "T", "A", "C", "G", "T", "A", "C", "G", "T", "\n">>>>

\* C7 (amended): the identifier is the header's first whitespace-delimited
\* token, marker included, and scenario A writes after the header row the one
\* row 4, @r1, ACGTACGTACGT.
C7_ScenarioA ==
    /\ (script = "repeat" /\ pc = "map_up") =>
          (IsFirstToken(rid, CurHeader) /\ Head(rid) = "@")
    /\ ScenarioA => OutLines = <<HeaderRow, <<"4", "\t", "@", "r", "1", "\t", "A", "C", "G", "T", "A", "C", "G", "T", "A", "C", "G", "T", "\n">>>>

C7_Witness ==
    /\ ScenarioA
    /\ Len(OutLines) = 2
    /\ rid = <<"@", "r", "1">>
    /\ count_pass = 1

\* the FASTA lines of one flank record
FlankLines(suffix, flank) == << <<">">> \o rid \o suffix \o <<"\n">>, flank \o <<"\n">> >>

\* the flank script is back at the loop head after the query of this read
FlankReadDone ==
    script = "flanks" /\ pc \in {"loop", "done"} /\ count_in >= 1 /\ queried = <<"tgt">>

\* C8: a read with a present hit [q_st, q_en) appends seq[0:q_st] as _up iff
\* q_st >= min_flank_len and seq[q_en:] as _down iff len(seq) - q_en >=
\* min_flank_len, _up before _down; a read without a hit appends nothing; a
\* hit at q_st = 0 gives no _up record when min_flank_len >= 1; the hit [3,9)
\* on ACGTACGTACGT with min_flank_len = 1 gives ACG as _up, CGT as _down.
C8_FlankOutput ==
    /\ (script = "flanks" /\ out_mode # "none") => Len(OutLines) = 2 * Len(wlog)
    /\ (FlankReadDone /\ hit = None) => CurEntries = 0
    /\ (FlankReadDone /\ hit # None) =>
          LET q_st == hit[1]
              q_en == hit[2]
              wu == q_st >= min_flank_len
              wd == Len(seq) - q_en >= min_flank_len
              u  == [i \in 1..q_st |-> seq[i]]
              dn == [i \in 1..(Len(seq) - q_en) |-> seq[q_en + i]]
          IN  /\ CurEntries = (IF wu THEN 1 ELSE 0) + (IF wd THEN 1 ELSE 0)
              /\ LastLines(2 * CurEntries) =
                    (IF wu THEN FlankLines(SuffixUp, u) ELSE <<>>)
                       \o (IF wd THEN FlankLines(SuffixDown, dn) ELSE <<>>)
              /\ (q_st = 0 /\ min_flank_len >= 1) =>
                    (CurEntries = 0 \/ LastLines(2 * CurEntries)[1]
                                          # <<">">> \o rid \o SuffixUp \o <<"\n">>)
    /\ (FlankReadDone /\ seq = <<"A", "C", "G", "T", "A", "C", "G", "T", "A", "C", "G", "T">> /\ hit = <<3, 9>> /\ min_flank_len = 1) =>
          /\ LastLines(4)[2] = <<"A", "C", "G", "\n">>
          /\ LastLines(4)[4] = <<"C", "G", "T", "\n">>
          /\ endswith(LastLines(4)[1], SuffixUp \o <<"\n">>)
          /\ endswith(LastLines(4)[3], SuffixDown \o <<"\n">>)

\* scenario C
C8_Witness ==
    /\ FlankReadDone
    /\ seq = <<"A", "C", "G", "T", "A", "C", "G", "T", "A", "C", "G", "T">>
    /\ hit = <<3, 9>>
    /\ min_flank_len = 1
    /\ OutLines = <<<<">", "@", "r", "1", "_", "u", "p", "\n">>, <<"A", "C", "G", "\n">>, <<">", "@", "r", "1", "_", "d", "o", "w", "n", "\n">>, <<"C", "G", "T", "\n">>>>

\* the references whose index cannot be built, by their place in the order
FailingRefs == {i \in 1..Len(Refs(script)) : ~idx_ok[Refs(script)[i]]}

FirstFailing == CHOOSE i \in FailingRefs : \A j \in FailingRefs : i <= j

\* the files as some run may find them at its start
InitialDisks ==
    {(fastqname :> c) @@ (outputname :> o) : c \in RunFiles, o \in OldOutputs}

\* C9: when a reference index cannot be built, the script never gets past the
\* construction of the first such reference: no FASTQ line is read, no query
\* is issued, the output file is neither opened nor changed, and the exit is
\* with a diagnostic naming that reference and a non-zero status; a run that
\* opens its output, reads a record or issues a query built every index.
C9_FatalStartup ==
    /\ FailingRefs # {} =>
          /\ pc \in {"build_" \o Refs(script)[i] : i \in 1..FirstFailing} \cup {"exit"}
          /\ fh_pos = 0 /\ yielded = <<>> /\ count_in = 0
          /\ queried = <<>> /\ cand = <<>>
          /\ out_mode = "none"
          /\ disk \in InitialDisks
          /\ pc = "exit" =>
                /\ exit_code > 0
                /\ stderr = <<[kind |-> "ERROR", ref |-> Refs(script)[FirstFailing]]>>
          /\ pc # "exit" => (exit_code = -1 /\ stderr = <<>>)
    /\ (out_mode # "none" \/ fh_pos > 0 \/ count_in > 0 \/ queried # <<>>) =>
          FailingRefs = {}
    /\ pc = "exit" => FailingRefs # {}

\* the downstream index fails after the upstream one was built: exit 1, the
\* stale output file untouched
C9_Witness ==
    /\ script = "repeat"
    /\ idx_ok = [r \in {"up", "down", "tgt"} |-> r # "down"]
    /\ pc = "exit"
    /\ exit_code = 1
    /\ OutLines = <<<<"s", "t", "a", "l", "e", "\n">>>>
    /\ out_mode = "none"

\* the entries written for read r
EntriesOf(r) == Cardinality({i \in 1..Len(wlog) : wlog[i] = r})

AtLoopHead == pc \in {"loop", "done"}

\* C10 as claimed: in every script, one output entry per accepted read, none
\* for a rejected one, in input order.
C10_Original == AtLoopHead => wlog = accepted

OrderedOutput ==
    /\ (AtLoopHead /\ script \in {"repeat", "only"}) => wlog = accepted
    /\ (AtLoopHead /\ script = "flanks") =>
          \A r \in 1..count_in :
             /\ EntriesOf(r) <= 2
             /\ (\A i \in 1..Len(accepted) : accepted[i] # r) => EntriesOf(r) = 0
    /\ \A i \in 1..Len(wlog) : \A j \in i..Len(wlog) : wlog[i] <= wlog[j]
    /\ \A i \in 1..Len(accepted) : \A j \in (i + 1)..Len(accepted) :
          accepted[i] < accepted[j]
    /\ \A i \in 1..Len(wlog) : wlog[i] \in 1..count_in
    /\ out_mode # "none" =>
          Len(OutLines) = IF script = "repeat" THEN 1 + Len(wlog) ELSE 2 * Len(wlog)
    /\ count_in >= 1 => <<rid, seq>> = yielded[count_in]

\* a record is pulled, and the output written, only where the step says
SequentialStep ==
    /\ yielded' # yielded => (pc = "loop" /\ yielded' = Append(yielded, <<rid', seq'>>))
    /\ wlog' # wlog =>
          /\ pc \in {"write_row", "write_flanks", "write_fasta"}
          /\ pc' = "loop"
          /\ yielded' = yielded
          /\ \E k \in 1..2 : wlog' = wlog \o [i \in 1..k |-> count_in]

\* C10 (amended): the repeat-size and filter scripts append exactly one entry
\* per accepted read; the flank script appends for an accepted read its _up
\* and _down records, between none and two; no script appends anything for a
\* rejected read; entries are in the order of their reads; a read is fully
\* classified and its entries written before the next record is pulled.
C10_OutputOrder == []OrderedOutput /\ [][SequentialStep]_vars

\* the flank script accepted both reads of the file: the first, its hit over
\* the whole read, gave no record, the second gave two
C10_Witness ==
    /\ script = "flanks"
    /\ pc = "done"
    /\ min_flank_len = 1
    /\ accepted = <<1, 2>>
    /\ wlog = <<2, 2>>

\* C14: in each of the three scripts, for every input file name, ending in
\* ".fastq" or not, the output path derived from it differs from it, so the
\* file open for writing is never the file being read.
C14_InputNeverClobbered ==
    out_mode \in {"w", "a"} => outputname # fastqname

(***************************************************************************)
(* Properties of two runs in succession (SpecTwice).                       *)
(***************************************************************************)
\* the process has ended, normally or by sys.exit
RunEnded == pc \in {"done", "exit"}

\* C11: when the second of two runs with the same arguments, on the files
\* as the first run left them and with mappy a function of (reference,
\* sequence), has ended, the output file holds exactly what it held when
\* the first run ended, whatever the input file name.
C11_Idempotent ==
    (run = 2 /\ RunEnded) => disk[outputname] = first_out

\* both runs of the repeat-size script wrote the header and two rows over a
\* stale output file
C11_Witness ==
    /\ run = 2 /\ pc = "done"
    /\ script = "repeat"
    /\ count_pass = 2
    /\ Len(first_out) = 3
    /\ disk[outputname] = first_out

(***************************************************************************)
(* Properties of the estimator (SpecEst).                                  *)
(***************************************************************************)
\* C12: the repeat-size estimate of upstream (a,b) and downstream (c,d) is
\* the same after the two endpoints of the upstream interval, of the
\* downstream interval, or of both are exchanged, for negative and
\* reversed coordinates too.
C12_Symmetry ==
    pc = "estimated" =>
        /\ est[1] = est[2]
        /\ est[1] = est[3]
        /\ est[1] = est[4]

\* upstream (-2,3), downstream (1,-1): the estimate is 1 in all four orders
C12_Witness ==
    /\ pc = "estimated"
    /\ up = <<-2, 3>> /\ down = <<1, -1>>
    /\ est = <<1, 1, 1, 1>>

====
